---------------------------- MODULE Spec2Model ----------------------------
(***************************************************************************)
(* Premium reconciliation of an HR export (EE Nav) against a carrier       *)
(* export (Principal).  Modelled are:                                      *)
(*   - app.py  : validate_input_file, compare_files, main (Streamlit)      *)
(*   - main.py : preprocess_and_match_names, assign_unique_ids,            *)
(*               compare_files (fuzzy name resolution)                     *)
(*   - principal_cleaner.py : clean_principal_file (member name split)     *)
(* Text is a sequence of one-character strings, so that strip, upper,      *)
(* concatenation, normalisation and hashing are computed, not assumed.     *)
(* Premium amounts are integers in thousandths (75.005 is 75005).          *)
(***************************************************************************)
EXTENDS Integers, Sequences, FiniteSets, TLC

VARIABLES
    pc,                 \* position of app.main: "uploaded", "validated", "done", "error"
    ee_columns,         \* df_ee.columns as read from the upload (sequence of headers)
    principal_columns,  \* df_principal.columns as read from the upload
    df_ee,              \* rows of the EE Nav table
    df_principal,       \* rows of the Principal table
    result,             \* the frame compare_files returned (app.py), <<>> before
    st_error,           \* the message main handed to st.error, NoError before
    issued,             \* the (first name, last name, identifier) of the rows of earlier runs
    ee_nav_cleaned,     \* main.py: the cleaned Employee Navigator frame
    carrier_cleaned,    \* main.py: the cleaned carrier frame
    matched,            \* main.py: the list `matched` of preprocess_and_match_names
    combined,           \* main.py: the frame assign_unique_ids / compare_files returned
    log,                \* main.py: the warnings written to the log
    principal_df,       \* principal_cleaner.py: the frame read from the input file
    principal_clean     \* principal_cleaner.py: the frame saved to the output file

app_vars == <<ee_columns, principal_columns, df_ee, df_principal, result, st_error, issued>>
main_vars == <<ee_nav_cleaned, carrier_cleaned, matched, combined, log>>
cleaner_vars == <<principal_df, principal_clean>>
vars == <<pc, app_vars, main_vars, cleaner_vars>>

-----------------------------------------------------------------------------
(* Bounds of the model *)

\* largest number of rows of the two uploaded tables together
MaxRows == 3

-----------------------------------------------------------------------------
(* Cells of a table *)

NaN == [kind |-> "nan"]
None == [kind |-> "none"]
Str(s) == [kind |-> "str", s |-> s]
Num(n) == [kind |-> "num", n |-> n]

\* pd.isna / pd.notna on a scalar
isna(x) == x.kind \in {"nan", "none"}
notna(x) == ~isna(x)

-----------------------------------------------------------------------------
(* Characters and text *)

LowerCase == <<"a","b","c","d","e","f","g","h","i","j","k","l","m",
               "n","o","p","q","r","s","t","u","v","w","x","y","z">>
UpperCase == <<"A","B","C","D","E","F","G","H","I","J","K","L","M",
               "N","O","P","Q","R","S","T","U","V","W","X","Y","Z">>
Digits == <<"0","1","2","3","4","5","6","7","8","9">>

IndexOf(c, seq) == IF \E i \in 1..Len(seq) : seq[i] = c
                   THEN CHOOSE i \in 1..Len(seq) : seq[i] = c
                   ELSE 0

\* the code point of a character (ASCII; the accented e is U+00E9)
ord(c) ==
    IF IndexOf(c, UpperCase) > 0 THEN 64 + IndexOf(c, UpperCase)
    ELSE IF IndexOf(c, LowerCase) > 0 THEN 96 + IndexOf(c, LowerCase)
    ELSE IF IndexOf(c, Digits) > 0 THEN 47 + IndexOf(c, Digits)
    ELSE CASE c = " " -> 32
           [] c = "'" -> 39
           [] c = "," -> 44
           [] c = "-" -> 45
           [] c = "_" -> 95
           [] OTHER -> 233

\* str.upper, one character
upper_char(c) == IF IndexOf(c, LowerCase) > 0 THEN UpperCase[IndexOf(c, LowerCase)] ELSE c

\* str.upper
upper(s) == [i \in 1..Len(s) |-> upper_char(s[i])]

RECURSIVE lstrip(_)
lstrip(s) == IF s # <<>> /\ Head(s) = " " THEN lstrip(Tail(s)) ELSE s

RECURSIVE rstrip(_)
rstrip(s) == IF s # <<>> /\ s[Len(s)] = " " THEN rstrip(SubSeq(s, 1, Len(s) - 1)) ELSE s

\* str.strip
strip(s) == rstrip(lstrip(s))

\* s < t in Python's string order
RECURSIVE str_less(_, _)
str_less(s, t) ==
    IF t = <<>> THEN FALSE
    ELSE IF s = <<>> THEN TRUE
    ELSE IF Head(s) # Head(t) THEN ord(Head(s)) < ord(Head(t))
    ELSE str_less(Tail(s), Tail(t))


\* str.lower
lower_char(c) == IF IndexOf(c, UpperCase) > 0 THEN LowerCase[IndexOf(c, UpperCase)] ELSE c
lower(s) == [i \in 1..Len(s) |-> lower_char(s[i])]

\* membership in a list
in_list(x, seq) == \E i \in 1..Len(seq) : seq[i] = x

\* F applied to the value of v, v being computed once (a value bound by a
\* quantifier is computed when the quantifier is, not at each of its uses)
bind(v, F(_)) == CHOOSE r \in {F(x) : x \in {v}} : TRUE

-----------------------------------------------------------------------------
(* hashlib.sha256(text).hexdigest()[:8]                                     *)
(* SHA-256 is stood in for by a deterministic digest of the encoded text:  *)
(* eight hexadecimal digits, each folded over all characters of the text.  *)

HexDigits == <<"0","1","2","3","4","5","6","7","8","9","a","b","c","d","e","f">>

RECURSIVE sha_fold(_, _)
sha_fold(state, s) ==
    IF s = <<>> THEN state
    ELSE LET c == ord(Head(s))
             d(i) == (state[i] * 7 + c * i + state[(i % 8) + 1]) % 16
         IN  sha_fold(<<d(1), d(2), d(3), d(4), d(5), d(6), d(7), d(8)>>, Tail(s))

hexdigest8(s) ==
    LET st == sha_fold(<<6, 10, 0, 9, 14, 6, 6, 7>>, s)
    IN  [i \in 1..8 |-> HexDigits[st[i] + 1]]

-----------------------------------------------------------------------------
(* pd.merge(left, right, on=[first name, last name], how="outer")           *)

\* order of two key cells: text in string order, NaN after all text
cell_less(a, b) ==
    IF isna(a) THEN FALSE
    ELSE IF isna(b) THEN TRUE
    ELSE str_less(a.s, b.s)

key_less(k1, k2) ==
    \/ cell_less(k1[1], k2[1])
    \/ k1[1] = k2[1] /\ cell_less(k1[2], k2[2])

RECURSIVE sort_keys(_)
sort_keys(S) ==
    IF S = {} THEN <<>>
    ELSE LET m == CHOOSE k \in S : \A o \in S \ {k} : key_less(k, o)
         IN  <<m>> \o sort_keys(S \ {m})

\* positions of the rows of a key list that hold key k, in row order
rows_of(keys, k) == SelectSeq([i \in 1..Len(keys) |-> i], LAMBDA i : keys[i] = k)

RECURSIVE flatten(_)
flatten(ss) == IF ss = <<>> THEN <<>> ELSE Head(ss) \o flatten(Tail(ss))

\* the rows one key contributes: the product of its left and right rows,
\* or the rows of the one side with 0 (no row) for the other
merge_group(L, R) ==
    IF R = <<>> THEN [i \in 1..Len(L) |-> <<L[i], 0>>]
    ELSE IF L = <<>> THEN [j \in 1..Len(R) |-> <<0, R[j]>>]
    ELSE flatten([i \in 1..Len(L) |-> [j \in 1..Len(R) |-> <<L[i], R[j]>>]])

\* the outer join as pairs <<left row, right row>> (0: no row), keys sorted,
\* NaN keys matching NaN keys
pd_merge(left_keys, right_keys) ==
    LET ks == sort_keys({left_keys[i] : i \in 1..Len(left_keys)}
                        \cup {right_keys[j] : j \in 1..Len(right_keys)})
    IN  flatten([n \in 1..Len(ks) |->
                    merge_group(rows_of(left_keys, ks[n]), rows_of(right_keys, ks[n]))])

-----------------------------------------------------------------------------
(* Cells of the uploaded sheets *)

ANN == <<"A","N","N">>
LEE == <<"L","E","E">>
abc == <<"a","b","c">>

\* the (first name, last name) cells of an uploaded row
NameKeys == {<<Str(ANN), Str(LEE)>>, <<Str(ANN), NaN>>, <<NaN, NaN>>}

\* premium cells: 75.00, 75.005, an empty cell, a cell holding text
EEPremiumCells == {Num(75000), NaN, Str(abc)}
PrincipalPremiumCells == {Num(75000), Num(75005), NaN, Str(abc)}

EERows == {[FIRST_NAME |-> k[1], LAST_NAME |-> k[2], TOTAL_PREMIUM |-> p] :
              k \in NameKeys, p \in EEPremiumCells}
PrincipalRows == {[FIRST_NAME |-> k[1], LAST_NAME |-> k[2], PRINCIPAL_PREMIUM |-> p] :
                     k \in NameKeys, p \in PrincipalPremiumCells}

-----------------------------------------------------------------------------
(* app.py *)

FIRST_NAME == <<"F","I","R","S","T"," ","N","A","M","E">>
LAST_NAME == <<"L","A","S","T"," ","N","A","M","E">>
TOTAL_PREMIUM == <<"T","O","T","A","L"," ","P","R","E","M","I","U","M">>
PRINCIPAL_PREMIUM == <<"P","R","I","N","C","I","P","A","L"," ","P","R","E","M","I","U","M">>

required_ee_columns == <<FIRST_NAME, LAST_NAME, TOTAL_PREMIUM>>
required_principal_columns == <<FIRST_NAME, LAST_NAME, PRINCIPAL_PREMIUM>>

NoError == [file_name |-> "", missing_columns |-> <<>>]

\* df.columns.str.strip().str.upper()
normalize_columns(columns) == [i \in 1..Len(columns) |-> upper(strip(columns[i]))]

\* [col for col in required_columns if col not in df.columns]
missing_columns(columns, required_columns) ==
    SelectSeq(required_columns, LAMBDA col : ~in_list(col, normalize_columns(columns)))

\* validate_input_file: the KeyError it raises, NoError when it returns
validate_input_file(columns, required_columns, file_name) ==
    IF missing_columns(columns, required_columns) # <<>>
    THEN [file_name |-> file_name,
          missing_columns |-> missing_columns(columns, required_columns)]
    ELSE NoError

\* STATUS and ISSUE of one merged row (the loop over combined.iterrows());
\* "None" is Python's None in the ISSUE column
row_status(total_premium, principal_premium) ==
    IF isna(total_premium) /\ isna(principal_premium)
        THEN <<"Invalid", "Missing Both Premiums">>
    ELSE IF isna(total_premium)
        THEN <<"Invalid", "Missing EE Nav Premium">>
    ELSE IF isna(principal_premium)
        THEN <<"Invalid", "Missing Principal Premium">>
    ELSE IF total_premium # principal_premium
        THEN <<"Invalid", "Premium Mismatch">>
    ELSE <<"Valid", "None">>

\* an identifier that hashes the HR premium along with the names
row_unique_id_premium(first_name, last_name, total_premium, principal_premium) ==
    IF notna(first_name) /\ notna(last_name)
    THEN Str(hexdigest8(first_name.s \o last_name.s
                        \o (IF isna(total_premium) THEN <<"n","a","n">> ELSE <<"7","5">>)))
    ELSE None

\* an identifier that checks the first name only (f"{nan}" is "nan")
row_unique_id_first_only(first_name, last_name, total_premium, principal_premium) ==
    IF notna(first_name)
    THEN Str(hexdigest8(first_name.s
                        \o (IF isna(last_name) THEN <<"n","a","n">> ELSE last_name.s)))
    ELSE None

\* UNIQUE ID of one merged row
row_unique_id(first_name, last_name, total_premium, principal_premium) ==
    IF notna(first_name) /\ notna(last_name)
    THEN Str(hexdigest8(first_name.s \o last_name.s))
    ELSE None

\* compare_files(df_ee, df_principal) of app.py; left_row and right_row record
\* the rows of the two inputs a merged row was built from (0: none)
compare_files(ee, principal) ==
    LET m == pd_merge([i \in 1..Len(ee) |-> <<ee[i].FIRST_NAME, ee[i].LAST_NAME>>],
                      [j \in 1..Len(principal) |->
                          <<principal[j].FIRST_NAME, principal[j].LAST_NAME>>])
        merged_row(n) ==
            LET l == m[n][1]
                r == m[n][2]
            IN  [FIRST_NAME |-> IF l > 0 THEN ee[l].FIRST_NAME ELSE principal[r].FIRST_NAME,
                 LAST_NAME |-> IF l > 0 THEN ee[l].LAST_NAME ELSE principal[r].LAST_NAME,
                 TOTAL_PREMIUM |-> IF l > 0 THEN ee[l].TOTAL_PREMIUM ELSE NaN,
                 PRINCIPAL_PREMIUM |-> IF r > 0 THEN principal[r].PRINCIPAL_PREMIUM ELSE NaN,
                 left_row |-> l,
                 right_row |-> r]
    IN  [n \in 1..Len(m) |->
            LET c == merged_row(n)
                s == row_status(c.TOTAL_PREMIUM, c.PRINCIPAL_PREMIUM)
            IN  [UNIQUE_ID |-> row_unique_id(c.FIRST_NAME, c.LAST_NAME,
                                             c.TOTAL_PREMIUM, c.PRINCIPAL_PREMIUM),
                 FIRST_NAME |-> c.FIRST_NAME,
                 LAST_NAME |-> c.LAST_NAME,
                 TOTAL_PREMIUM |-> c.TOTAL_PREMIUM,
                 PRINCIPAL_PREMIUM |-> c.PRINCIPAL_PREMIUM,
                 STATUS |-> s[1],
                 ISSUE |-> s[2],
                 left_row |-> c.left_row,
                 right_row |-> c.right_row]]

\* main, lines 96-102: normalise the headers and validate both files;
\* a KeyError goes to st.error (lines 120-121)
Validate ==
    /\ pc = "uploaded"
    /\ ee_columns' = normalize_columns(ee_columns)
    /\ principal_columns' = normalize_columns(principal_columns)
    /\ LET e1 == validate_input_file(ee_columns, required_ee_columns, "EE Nav File")
           e2 == validate_input_file(principal_columns, required_principal_columns,
                                     "Principal File")
       IN  IF e1 # NoError THEN pc' = "error" /\ st_error' = e1
           ELSE IF e2 # NoError THEN pc' = "error" /\ st_error' = e2
           ELSE pc' = "validated" /\ st_error' = NoError
    /\ UNCHANGED <<df_ee, df_principal, result, issued, main_vars, cleaner_vars>>

\* main, lines 104-109: compare the files and show the result
Compare ==
    /\ pc = "validated"
    /\ result' = compare_files(df_ee, df_principal)
    /\ pc' = "done"
    /\ UNCHANGED <<ee_columns, principal_columns, df_ee, df_principal, st_error, issued,
                   main_vars, cleaner_vars>>

\* The script runs again when an upload is replaced (Streamlit reruns main):
\* a sheet comes back with one premium cell corrected.  The script's own
\* state starts afresh; the rows it had shown are remembered in `issued`.
Reupload ==
    /\ pc = "done"
    /\ pc' = "uploaded"
    /\ issued' = issued \cup {<<result[n].FIRST_NAME, result[n].LAST_NAME, result[n].UNIQUE_ID>> :
                                n \in 1..Len(result)}
    /\ \/ \E i \in 1..Len(df_ee) : \E p \in EEPremiumCells \ {df_ee[i].TOTAL_PREMIUM} :
             /\ df_ee' = [df_ee EXCEPT ![i].TOTAL_PREMIUM = p]
             /\ df_principal' = df_principal
       \/ \E j \in 1..Len(df_principal) :
             \E p \in PrincipalPremiumCells \ {df_principal[j].PRINCIPAL_PREMIUM} :
                /\ df_principal' = [df_principal EXCEPT ![j].PRINCIPAL_PREMIUM = p]
                /\ df_ee' = df_ee
    /\ result' = <<>>
    /\ UNCHANGED <<ee_columns, principal_columns, st_error, main_vars, cleaner_vars>>

-----------------------------------------------------------------------------
(* main.py: text normalisation and the fuzzy score *)

IsAlpha(c) == IndexOf(c, UpperCase) > 0 \/ IndexOf(c, LowerCase) > 0

\* unicodedata.normalize('NFKD', name).encode('ascii', 'ignore'): an accented
\* letter decomposes to its base letter, the combining mark is dropped
RECURSIVE ascii_fold(_)
ascii_fold(s) ==
    IF s = <<>> THEN <<>>
    ELSE IF Head(s) = "é" THEN <<"e">> \o ascii_fold(Tail(s))
    ELSE IF ord(Head(s)) < 128 THEN <<Head(s)>> \o ascii_fold(Tail(s))
    ELSE ascii_fold(Tail(s))

\* str.split(): the words between runs of white space
RECURSIVE split_from(_, _)
split_from(s, word) ==
    IF s = <<>> THEN (IF word = <<>> THEN <<>> ELSE <<word>>)
    ELSE IF Head(s) = " "
        THEN (IF word = <<>> THEN <<>> ELSE <<word>>) \o split_from(Tail(s), <<>>)
    ELSE split_from(Tail(s), Append(word, Head(s)))

split(s) == split_from(s, <<>>)

\* " ".join(words)
RECURSIVE join(_)
join(words) ==
    IF words = <<>> THEN <<>>
    ELSE IF Len(words) = 1 THEN Head(words)
    ELSE Head(words) \o <<" ">> \o join(Tail(words))

\* normalize_name
normalize_name(name) ==
    LET ascii == ascii_fold(name)
        alpha == SelectSeq(ascii, LAMBDA c : IsAlpha(c) \/ c = " ")
    IN  join(split(lower(alpha)))

\* one row of the longest-common-subsequence table: row[j + 1] is the length
\* for the characters of s read so far and the first j characters of t
RECURSIVE lcs_row(_, _, _, _)
lcs_row(c, t, prev, cur) ==
    IF Len(cur) = Len(t) + 1 THEN cur
    ELSE LET j == Len(cur)
             up == prev[j + 1]
             left == cur[j]
         IN  bind(Append(cur, IF c = t[j] THEN prev[j] + 1
                              ELSE IF up >= left THEN up ELSE left),
                  LAMBDA next : lcs_row(c, t, prev, next))

RECURSIVE lcs_rows(_, _, _)
lcs_rows(s, t, prev) ==
    IF s = <<>> THEN prev
    ELSE bind(lcs_row(Head(s), t, prev, <<0>>), LAMBDA row : lcs_rows(Tail(s), t, row))

\* length of a longest common subsequence: the matched characters of the
\* ratio (2 * matches / total length)
lcs(s, t) == lcs_rows(s, t, [j \in 1..(Len(t) + 1) |-> 0])[Len(t) + 1]

\* int(round(num / den)), Python's round (half to even)
intr(num, den) ==
    bind(<<num \div den, num % den>>,
         LAMBDA qr : IF 2 * qr[2] < den THEN qr[1]
                     ELSE IF 2 * qr[2] > den THEN qr[1] + 1
                     ELSE IF qr[1] % 2 = 0 THEN qr[1] ELSE qr[1] + 1)

\* max(values)
maximum(values) == bind(values, LAMBDA S : CHOOSE x \in S : \A y \in S : y <= x)

\* fuzz.ratio
ratio(s1, s2) ==
    IF s1 = <<>> \/ s2 = <<>> THEN 0
    ELSE intr(200 * lcs(s1, s2), Len(s1) + Len(s2))

\* sorted(words)
RECURSIVE sorted_words(_)
sorted_words(S) ==
    IF S = {} THEN <<>>
    ELSE LET m == CHOOSE w \in S : \A o \in S \ {w} : str_less(w, o)
         IN  <<m>> \o sorted_words(S \ {m})

RECURSIVE insert_word(_, _)
insert_word(w, ws) ==
    IF ws = <<>> THEN <<w>>
    ELSE IF str_less(Head(ws), w) \/ Head(ws) = w THEN <<Head(ws)>> \o insert_word(w, Tail(ws))
    ELSE <<w>> \o ws

RECURSIVE sorted_list(_)
sorted_list(ws) == IF ws = <<>> THEN <<>> ELSE insert_word(Head(ws), sorted_list(Tail(ws)))

\* fuzz.token_sort_ratio on processed text
token_sort_ratio(s1, s2) ==
    ratio(join(sorted_list(split(s1))), join(sorted_list(split(s2))))

\* the set of the words of a text
tokens(s) == bind(split(s), LAMBDA words : {words[i] : i \in 1..Len(words)})

\* fuzz.token_set_ratio on processed text
token_set_ratio(s1, s2) ==
    bind(<<tokens(s1), tokens(s2)>>, LAMBDA tk :
       bind(<<join(sorted_words(tk[1] \cap tk[2])),
              join(sorted_words(tk[1] \ tk[2])),
              join(sorted_words(tk[2] \ tk[1]))>>, LAMBDA sorted :
          bind(<<sorted[1],
                 strip(sorted[1] \o <<" ">> \o sorted[2]),
                 strip(sorted[1] \o <<" ">> \o sorted[3])>>, LAMBDA t :
             maximum({ratio(t[1], t[2]), ratio(t[1], t[3]), ratio(t[2], t[3])}))))

\* fuzz.WRatio on processed text whose lengths differ by less than half:
\* the best of the plain ratio and the token ratios scaled by 0.95
WRatio(s1, s2) ==
    IF s1 = <<>> \/ s2 = <<>> THEN 0
    ELSE intr(maximum({100 * ratio(s1, s2),
                       95 * token_sort_ratio(s1, s2),
                       95 * token_set_ratio(s1, s2)}), 100)

-----------------------------------------------------------------------------
(* Rows of the frames main.py works on *)

Ann == <<"A","n","n">>
Anne == <<"A","n","n","e">>
Anna == <<"A","n","n","a">>
Anne_accent == <<"A","n","n","é">>
Bob == <<"B","o","b">>
Lee == <<"L","e","e">>

\* rows of the frames assign_unique_ids is given, with the columns it reads
\* ("First Name", "Last Name") and the premium columns compare_files reads
\* ("EE Nav Premium", "Carrier Premium"); names are present, since
\* normalize_name raises on a missing one
NavRows == {[First_Name |-> Str(f), Last_Name |-> Str(Lee), EE_Nav_Premium |-> p] :
               f \in {Ann, Anne, Bob}, p \in {Num(75000), NaN}}
CarrierRows == {[First_Name |-> Str(f), Last_Name |-> Str(Lee), Carrier_Premium |-> p] :
                   f \in {Ann, Anna, Anne_accent}, p \in {Num(75000), Num(80000)}}

-----------------------------------------------------------------------------
(* main.py: fuzzy name resolution, identifiers, status *)

\* the default of preprocess_and_match_names(df1, df2, threshold=85)
threshold == 85

\* df["First Name"] + " " + df["Last Name"], normalised
normalized_name(row) == normalize_name(row.First_Name.s \o <<" ">> \o row.Last_Name.s)

\* process.extractOne(name1, choices) of fuzzywuzzy, for choices that are not
\* empty: max(..., key=score) over the choices in iteration order, which is the
\* first choice of the highest score, with its score
extractOne(name1, choices) ==
    bind([j \in 1..Len(choices) |-> WRatio(name1, choices[j])] \o <<>>, LAMBDA score :
       LET best == CHOOSE j \in 1..Len(choices) :
                       /\ \A k \in 1..Len(choices) : score[k] <= score[j]
                       /\ \A k \in 1..(j - 1) : score[k] < score[j]
       IN  <<choices[best], score[best]>>)

\* df2[df2["Normalized Name"] == best_match].index[0]
first_index(names2, best_match) ==
    CHOOSE j \in 1..Len(names2) :
        names2[j] = best_match /\ \A k \in 1..(j - 1) : names2[k] # best_match

\* the pair appended to `matched` for row i of df1, <<>> when the score is
\* below the threshold
match_of(i, names1, names2) ==
    bind(extractOne(names1[i], names2), LAMBDA one :
       IF one[2] >= threshold THEN <<<<i, first_index(names2, one[1])>>>> ELSE <<>>)

\* the loop of preprocess_and_match_names over df1["Normalized Name"].items()
match_names(names1, names2) ==
    bind(<<names1 \o <<>>, names2 \o <<>>>>, LAMBDA names :
       flatten([i \in 1..Len(names[1]) |-> match_of(i, names[1], names[2])] \o <<>>))

\* generate_unique_id
generate_unique_id(full_name) == Str(hexdigest8(full_name))

\* calculate_status of compare_files (main.py)
calculate_status(ee_nav_premium, carrier_premium) ==
    IF isna(ee_nav_premium) /\ ~isna(carrier_premium) THEN "Check Eligibility Status"
    ELSE IF isna(carrier_premium) /\ ~isna(ee_nav_premium) THEN "Check Enrollment Status"
    ELSE IF ~isna(ee_nav_premium) /\ ~isna(carrier_premium) THEN "Valid"
    ELSE "Unknown"

\* the frame assign_unique_ids returns, given the two frames and `matched`
merge_with_ids(df1, df2, pairs) ==
    LET id_ee(l) == IF l > 0 THEN generate_unique_id(normalized_name(df1[l])) ELSE NaN
        id_carrier(r) == IF r > 0 THEN generate_unique_id(normalized_name(df2[r])) ELSE NaN
        merged_row(l, r) ==
            [First_Name |-> IF l > 0 THEN df1[l].First_Name ELSE df2[r].First_Name,
             Last_Name |-> IF l > 0 THEN df1[l].Last_Name ELSE df2[r].Last_Name,
             EE_Nav_Premium |-> IF l > 0 THEN df1[l].EE_Nav_Premium ELSE NaN,
             Carrier_Premium |-> IF r > 0 THEN df2[r].Carrier_Premium ELSE NaN,
             Matched_EE |-> l > 0 /\ \E q \in 1..Len(pairs) : pairs[q][1] = l,
             Matched_Carrier |-> r > 0 /\ \E q \in 1..Len(pairs) : pairs[q][2] = r,
             Unique_ID |-> bind(id_ee(l), LAMBDA id : IF notna(id) THEN id ELSE id_carrier(r)),
             Status |-> "",
             left_row |-> l,
             right_row |-> r]
    IN  bind(pd_merge([i \in 1..Len(df1) |-> <<df1[i].First_Name, df1[i].Last_Name>>] \o <<>>,
                      [j \in 1..Len(df2) |-> <<df2[j].First_Name, df2[j].Last_Name>>] \o <<>>),
             LAMBDA m : [n \in 1..Len(m) |-> merged_row(m[n][1], m[n][2])] \o <<>>)

\* main, line 235: assign_unique_ids(ee_nav_cleaned, carrier_cleaned), on frames
\* that hold the columns it reads.  fuzzywuzzy is not part of the repository
\* and the shape of what extractOne returns is the library's: a pair
\* (choice, score) for a plain sequence of choices, a triple
\* (choice, score, key) for choices with .items(), which a pandas Series has,
\* and None for no choices.  Line 133 unpacks two values, so with an HR row to
\* match the call either goes through (a pair) or raises (a triple, or None),
\* and main logs the error (lines 244-245).  Both outcomes are modelled.
AssignUniqueIds ==
    /\ pc = "cleaned"
    /\ \/ /\ ee_nav_cleaned = <<>> \/ carrier_cleaned # <<>>
          /\ matched' = match_names(
                 [i \in 1..Len(ee_nav_cleaned) |-> normalized_name(ee_nav_cleaned[i])],
                 [j \in 1..Len(carrier_cleaned) |-> normalized_name(carrier_cleaned[j])])
          /\ combined' = merge_with_ids(ee_nav_cleaned, carrier_cleaned, matched')
          /\ pc' = "assigned"
       \/ /\ ee_nav_cleaned # <<>>
          /\ pc' = "error"
          /\ UNCHANGED <<matched, combined>>
    /\ UNCHANGED <<ee_nav_cleaned, carrier_cleaned, log, app_vars, cleaner_vars>>

\* main, line 238: compare_files(combined)
CompareFiles ==
    /\ pc = "assigned"
    /\ combined' = [n \in 1..Len(combined) |->
                       [combined[n] EXCEPT !.Status =
                           calculate_status(combined[n].EE_Nav_Premium,
                                            combined[n].Carrier_Premium)]]
    /\ pc' = "compared"
    /\ UNCHANGED <<ee_nav_cleaned, carrier_cleaned, matched, log, app_vars, cleaner_vars>>

-----------------------------------------------------------------------------
(* main.py: verify_and_map_columns *)

First_Name_col == <<"F","i","r","s","t"," ","N","a","m","e">>
Last_Name_col == <<"L","a","s","t"," ","N","a","m","e">>
Premium_col == <<"P","r","e","m","i","u","m">>
FIRST_NAME_us == <<"F","I","R","S","T","_","N","A","M","E">>
LAST_NAME_us == <<"L","A","S","T","_","N","A","M","E">>
TOTAL_PREMIUM_us == <<"T","O","T","A","L","_","P","R","E","M","I","U","M">>
PLAN_COST == <<"P","L","A","N","_","C","O","S","T">>

\* a column_map: the standard columns, each with the names it may go by.
\* main.py holds no column_map of its own; this one is the argument of the
\* calls modelled here.
column_map ==
    <<[standard_col |-> First_Name_col, variations |-> <<FIRST_NAME_us, FIRST_NAME>>],
      [standard_col |-> Last_Name_col, variations |-> <<LAST_NAME_us, LAST_NAME>>],
      [standard_col |-> Premium_col, variations |-> <<TOTAL_PREMIUM_us, PLAN_COST>>]>>

\* the for/else of verify_and_map_columns for one standard column: the first
\* variation that is a column of the frame, <<>> when there is none
first_variation(variations, columns) ==
    LET found == SelectSeq(variations, LAMBDA col : in_list(col, columns))
    IN  IF found = <<>> THEN <<>> ELSE <<Head(found)>>

\* mapped_columns, as the list of its (standard_col, col) items
mapped_columns(columns, cmap) ==
    flatten([k \in 1..Len(cmap) |->
                LET v == first_variation(cmap[k].variations, columns)
                IN  IF v = <<>> THEN <<>> ELSE <<<<cmap[k].standard_col, v[1]>>>>])

\* the warnings of the else branch, one for each standard column not found
warnings(columns, cmap) ==
    flatten([k \in 1..Len(cmap) |->
                IF first_variation(cmap[k].variations, columns) = <<>>
                THEN <<cmap[k].standard_col>> ELSE <<>>])

\* df.rename(columns=mapped_columns): a column whose name is a key of the
\* mapping takes the mapped name
rename(columns, mapping) ==
    [i \in 1..Len(columns) |->
        IF \E k \in 1..Len(mapping) : mapping[k][1] = columns[i]
        THEN mapping[CHOOSE k \in 1..Len(mapping) : mapping[k][1] = columns[i]][2]
        ELSE columns[i]]

\* verify_and_map_columns(df, column_map): the columns of the frame returned
verify_and_map_columns(columns, cmap) == rename(columns, mapped_columns(columns, cmap))

\* verify_and_map_columns on the Employee Navigator frame: it returns the
\* frame whatever is missing, after logging
VerifyEE ==
    /\ pc = "loaded"
    /\ ee_columns' = verify_and_map_columns(ee_columns, column_map)
    /\ log' = log \o warnings(ee_columns, column_map)
    /\ pc' = "ee_mapped"
    /\ UNCHANGED <<principal_columns, df_ee, df_principal, result, st_error, issued,
                   ee_nav_cleaned, carrier_cleaned, matched, combined, cleaner_vars>>

\* verify_and_map_columns on the carrier frame
VerifyCarrier ==
    /\ pc = "ee_mapped"
    /\ principal_columns' = verify_and_map_columns(principal_columns, column_map)
    /\ log' = log \o warnings(principal_columns, column_map)
    /\ pc' = "mapped"
    /\ UNCHANGED <<ee_columns, df_ee, df_principal, result, st_error, issued,
                   ee_nav_cleaned, carrier_cleaned, matched, combined, cleaner_vars>>

-----------------------------------------------------------------------------
(* Inputs *)

\* all tables of exactly n rows
Tables(Rows, n) == [1..n -> Rows]

\* a header as typed into the sheet: exact, or lower case with spaces around
Messy(h) == <<" ">> \o lower(h) \o <<" ", " ">>
HeaderForms(h) == {<<>>, <<h>>, <<Messy(h)>>}
Headers(required) ==
    {a \o b \o c : a \in HeaderForms(required[1]), b \in HeaderForms(required[2]),
                   c \in HeaderForms(required[3])}

SampleEE == <<[FIRST_NAME |-> Str(ANN), LAST_NAME |-> Str(LEE), TOTAL_PREMIUM |-> Num(75000)]>>
SamplePrincipal ==
    <<[FIRST_NAME |-> Str(ANN), LAST_NAME |-> Str(LEE), PRINCIPAL_PREMIUM |-> Num(75005)]>>

\* any headers over one sample upload, or any two tables of at most MaxRows
\* rows together under complete headers
Init ==
    /\ pc = "uploaded"
    /\ result = <<>>
    /\ st_error = NoError
    /\ issued = {}
    /\ ee_nav_cleaned = <<>> /\ carrier_cleaned = <<>>
    /\ matched = <<>> /\ combined = <<>> /\ log = <<>>
    /\ principal_df = <<>> /\ principal_clean = <<>>
    /\ \/ /\ ee_columns \in Headers(required_ee_columns)
          /\ principal_columns \in Headers(required_principal_columns)
          /\ df_ee = SampleEE
          /\ df_principal = SamplePrincipal
       \/ /\ ee_columns = required_ee_columns
          /\ principal_columns = required_principal_columns
          /\ \E n \in 0..MaxRows : \E m \in 0..(MaxRows - n) :
                /\ df_ee \in Tables(EERows, n)
                /\ df_principal \in Tables(PrincipalRows, m)

\* main.py before assign_unique_ids is called: any two frames of at most
\* MaxRows rows together
InitMain ==
    /\ pc = "cleaned"
    /\ ee_columns = <<>> /\ principal_columns = <<>>
    /\ df_ee = <<>> /\ df_principal = <<>>
    /\ result = <<>>
    /\ st_error = NoError
    /\ issued = {}
    /\ matched = <<>> /\ combined = <<>> /\ log = <<>>
    /\ principal_df = <<>> /\ principal_clean = <<>>
    /\ \E n \in 0..MaxRows : \E m \in 0..(MaxRows - n) :
          /\ ee_nav_cleaned \in Tables(NavRows, n)
          /\ carrier_cleaned \in Tables(CarrierRows, m)

NextMain == AssignUniqueIds \/ CompareFiles

SpecMain == InitMain /\ [][NextMain]_vars

\* the columns a loaded frame can have: each standard column under one of
\* its names, under its standard name, or not at all
ColumnForms(entry) ==
    {<<>>, <<entry.standard_col>>} \cup {<<entry.variations[i]>> : i \in 1..Len(entry.variations)}
LoadedColumns ==
    {a \o b \o c : a \in ColumnForms(column_map[1]), b \in ColumnForms(column_map[2]),
                   c \in ColumnForms(column_map[3])}

\* verify_and_map_columns called on two loaded frames
InitColumns ==
    /\ pc = "loaded"
    /\ ee_columns \in LoadedColumns
    /\ principal_columns \in LoadedColumns
    /\ df_ee = <<>> /\ df_principal = <<>>
    /\ result = <<>>
    /\ st_error = NoError
    /\ issued = {}
    /\ ee_nav_cleaned = <<>> /\ carrier_cleaned = <<>>
    /\ matched = <<>> /\ combined = <<>> /\ log = <<>>
    /\ principal_df = <<>> /\ principal_clean = <<>>

NextColumns == VerifyEE \/ VerifyCarrier

SpecColumns == InitColumns /\ [][NextColumns]_vars

Next == Validate \/ Compare \/ Reupload

Spec == Init /\ [][Next]_vars

-----------------------------------------------------------------------------
(* principal_cleaner.py: clean_principal_file *)

\* the separator of df['Member Name'].str.split(', ', expand=True)
separator == <<",", " ">>

\* s starts with sep
starts_with(s, sep) == Len(s) >= Len(sep) /\ SubSeq(s, 1, Len(sep)) = sep

\* str.split(sep): the pieces between the occurrences of sep, read from the left
RECURSIVE str_split_from(_, _, _)
str_split_from(s, sep, piece) ==
    IF s = <<>> THEN <<piece>>
    ELSE IF starts_with(s, sep)
        THEN <<piece>> \o str_split_from(SubSeq(s, Len(sep) + 1, Len(s)), sep, <<>>)
    ELSE str_split_from(Tail(s), sep, Append(piece, Head(s)))

str_split(s, sep) == str_split_from(s, sep, <<>>)

\* member names of the carrier file: "LAST, FIRST", a last name alone, a comma
\* without the space, a name with a suffix after a second separator, and a
\* last name followed by the separator alone
JR == <<"J","R">>
MemberNames ==
    {LEE \o separator \o ANN,
     LEE,
     LEE \o <<",">> \o ANN,
     LEE \o separator \o ANN \o separator \o JR,
     LEE \o separator}

\* rows of the frame read from the Principal file
MemberRows == {[Member_Name |-> Str(m), Total_Premium |-> p] :
                  m \in MemberNames, p \in {Num(75000), NaN}}

\* str.split(sep, expand=True) over a column: a frame with as many columns as
\* the longest list of pieces, the shorter lists filled with None
split_expand(column, sep) ==
    bind([i \in 1..Len(column) |-> str_split(column[i], sep)] \o <<>>, LAMBDA pieces :
       bind(maximum({Len(pieces[i]) : i \in 1..Len(pieces)}), LAMBDA width :
          [i \in 1..Len(pieces) |->
              [k \in 1..width |-> IF k <= Len(pieces[i]) THEN Str(pieces[i][k]) ELSE None]]))

\* clean_principal_file: df[['Last Name', 'First Name']] = the split frame
\* (line 20), which raises ValueError unless the split frame has two columns;
\* the three columns kept (line 23) are saved (line 26).  Nothing catches the
\* error, and then nothing is saved.
CleanPrincipalFile ==
    /\ pc = "principal_loaded"
    /\ \E cols \in {split_expand([i \in 1..Len(principal_df) |-> principal_df[i].Member_Name.s]
                                 \o <<>>, separator)} :
          IF Len(cols[1]) = 2
          THEN /\ principal_clean' =
                     [i \in 1..Len(principal_df) |->
                         [Last_Name |-> cols[i][1],
                          First_Name |-> cols[i][2],
                          Total_Premium |-> principal_df[i].Total_Premium]]
               /\ pc' = "saved"
          ELSE /\ pc' = "error"
               /\ UNCHANGED principal_clean
    /\ UNCHANGED <<principal_df, app_vars, main_vars>>

\* a Principal file of one to MaxRows rows, read by pd.read_excel (line 17)
InitCleaner ==
    /\ pc = "principal_loaded"
    /\ ee_columns = <<>> /\ principal_columns = <<>>
    /\ df_ee = <<>> /\ df_principal = <<>>
    /\ result = <<>>
    /\ st_error = NoError
    /\ issued = {}
    /\ ee_nav_cleaned = <<>> /\ carrier_cleaned = <<>>
    /\ matched = <<>> /\ combined = <<>> /\ log = <<>>
    /\ principal_clean = <<>>
    /\ \E n \in 1..MaxRows : principal_df \in Tables(MemberRows, n)

NextCleaner == CleanPrincipalFile

SpecCleaner == InitCleaner /\ [][NextCleaner]_vars

-----------------------------------------------------------------------------
(* Properties *)

Abs(x) == IF x < 0 THEN -x ELSE x

\* the rows of the result built from row i of the left, of the right table
RowsOfLeft(frame, i) == {n \in 1..Len(frame) : frame[n].left_row = i}
RowsOfRight(frame, j) == {n \in 1..Len(frame) : frame[n].right_row = j}

ExactlyOnce(frame, left, right) ==
    /\ \A i \in 1..Len(left) : Cardinality(RowsOfLeft(frame, i)) = 1
    /\ \A j \in 1..Len(right) : Cardinality(RowsOfRight(frame, j)) = 1

\* C1: every HR record and every carrier record is in exactly one row of the
\* outer-join merge, also when a (first name, last name) key occurs more than
\* once: none is lost, none is in several rows.
C1_Totality ==
    /\ pc = "done" => ExactlyOnce(result, df_ee, df_principal)
    /\ pc \in {"assigned", "compared"} => ExactlyOnce(combined, ee_nav_cleaned, carrier_cleaned)

\* the issue the decision table gives for a pair of premiums, equality being
\* plain equality
TableIssue(hr_premium, carrier_premium) ==
    IF isna(hr_premium) /\ isna(carrier_premium) THEN "MISSING_BOTH"
    ELSE IF isna(hr_premium) THEN "MISSING_HR"
    ELSE IF isna(carrier_premium) THEN "MISSING_CARRIER"
    ELSE IF hr_premium # carrier_premium THEN "MISMATCH"
    ELSE "NONE"

\* the (STATUS, ISSUE) of app.py and the Status of main.py that stand for an issue
AppLabel(issue) ==
    CASE issue = "MISSING_BOTH" -> <<"Invalid", "Missing Both Premiums">>
      [] issue = "MISSING_HR" -> <<"Invalid", "Missing EE Nav Premium">>
      [] issue = "MISSING_CARRIER" -> <<"Invalid", "Missing Principal Premium">>
      [] issue = "MISMATCH" -> <<"Invalid", "Premium Mismatch">>
      [] OTHER -> <<"Valid", "None">>

MainLabels(issue) ==
    CASE issue = "MISSING_BOTH" -> {"Unknown"}
      [] issue = "MISSING_HR" -> {"Check Eligibility Status"}
      [] issue = "MISSING_CARRIER" -> {"Check Enrollment Status"}
      [] issue = "MISMATCH" -> {"Unknown", "Check Eligibility Status", "Check Enrollment Status"}
      [] OTHER -> {"Valid"}

\* C2: every merged row is classified by the decision table, in its priority
\* order: missing both, missing HR, missing carrier, mismatch, else valid; a
\* row is valid only when both premiums are present and equal.
C2_DecisionTable ==
    /\ pc = "done" =>
          \A n \in 1..Len(result) :
             <<result[n].STATUS, result[n].ISSUE>> =
                AppLabel(TableIssue(result[n].TOTAL_PREMIUM, result[n].PRINCIPAL_PREMIUM))
    /\ pc = "compared" =>
          \A n \in 1..Len(combined) :
             combined[n].Status \in
                MainLabels(TableIssue(combined[n].EE_Nav_Premium, combined[n].Carrier_Premium))

\* C3: with both premiums present, a difference below the tolerance (0.01,
\* 10 thousandths) is VALID, and MISMATCH is given only to a difference above it.
C3_Tolerance ==
    pc = "done" =>
       \A n \in 1..Len(result) :
          LET hr == result[n].TOTAL_PREMIUM
              carrier == result[n].PRINCIPAL_PREMIUM
          IN  hr.kind = "num" /\ carrier.kind = "num" =>
                 /\ Abs(hr.n - carrier.n) < 10 => result[n].STATUS = "Valid"
                 /\ result[n].ISSUE = "Premium Mismatch" => Abs(hr.n - carrier.n) > 10

ScoreOf(i, j) ==
    WRatio(normalized_name(ee_nav_cleaned[i]), normalized_name(carrier_cleaned[j]))

\* the first carrier row, in row order, whose score for HR row i no row exceeds
FirstBest(i) ==
    CHOOSE j \in 1..Len(carrier_cleaned) :
        /\ \A k \in 1..Len(carrier_cleaned) : ScoreOf(i, k) <= ScoreOf(i, j)
        /\ \A k \in 1..(j - 1) : ScoreOf(i, k) < ScoreOf(i, j)

\* C6: for each HR record a match is recorded exactly when the highest score
\* over the carrier records reaches the threshold (85), and the carrier record
\* recorded is the first, in carrier order, of those with the highest score.
C6_FuzzySelection ==
    pc \in {"assigned", "compared", "error"} /\ carrier_cleaned # <<>> =>
       \A i \in 1..Len(ee_nav_cleaned) :
          LET mine == {q \in 1..Len(matched) : matched[q][1] = i}
          IN  IF ScoreOf(i, FirstBest(i)) >= 85
              THEN /\ Cardinality(mine) = 1
                   /\ \A q \in mine : matched[q][2] = FirstBest(i)
              ELSE mine = {}

\* the (first name, last name, identifier) of the rows shown in this run and
\* in the runs before
Shown ==
    issued \cup {<<result[n].FIRST_NAME, result[n].LAST_NAME, result[n].UNIQUE_ID>> :
                    n \in 1..Len(result)}

\* C7: two rows of the same first and last name, of one run or of different
\* runs, have the same identifier, whatever their premiums.
C7_IdentifierPurity ==
    \A a \in Shown : \A b \in Shown : a[1] = b[1] /\ a[2] = b[2] => a[3] = b[3]

\* a later run in which two rows of one name and different HR premiums carry
\* the same identifier, an identifier already shown in an earlier run
C7_Witness ==
    /\ pc = "done"
    /\ \E m, n \in 1..Len(result) :
          /\ result[m].FIRST_NAME = result[n].FIRST_NAME
          /\ result[m].LAST_NAME = result[n].LAST_NAME
          /\ result[m].TOTAL_PREMIUM # result[n].TOTAL_PREMIUM
          /\ result[m].UNIQUE_ID.kind = "str"
          /\ result[m].UNIQUE_ID = result[n].UNIQUE_ID
          /\ <<result[m].FIRST_NAME, result[m].LAST_NAME, result[m].UNIQUE_ID>> \in issued

\* C8: a row whose first or last name is absent has the identifier None; a
\* row with both names has an identifier of 8 hexadecimal characters.
C8_AbsentNameIdentifier ==
    pc = "done" =>
       \A n \in 1..Len(result) :
          IF isna(result[n].FIRST_NAME) \/ isna(result[n].LAST_NAME)
          THEN result[n].UNIQUE_ID = None
          ELSE /\ result[n].UNIQUE_ID.kind = "str"
               /\ Len(result[n].UNIQUE_ID.s) = 8
               /\ \A k \in 1..8 : in_list(result[n].UNIQUE_ID.s[k], HexDigits)

\* a result with a row that has a first name and no last name, without
\* identifier, beside a row with both names and an identifier
C8_Witness ==
    /\ pc = "done"
    /\ \E m, n \in 1..Len(result) :
          /\ notna(result[m].FIRST_NAME) /\ isna(result[m].LAST_NAME)
          /\ result[m].UNIQUE_ID = None
          /\ notna(result[n].FIRST_NAME) /\ notna(result[n].LAST_NAME)
          /\ result[n].UNIQUE_ID.kind = "str"

\* a frame has a column for a standard column of the column_map
has_column(columns, entry) ==
    \/ in_list(entry.standard_col, columns)
    \/ \E v \in 1..Len(entry.variations) : in_list(entry.variations[v], columns)

complete(columns) == \A k \in 1..Len(column_map) : has_column(columns, column_map[k])

\* C9: a table without a column for first name, last name or premium makes
\* validation fail with an error that names the file and lists exactly the
\* missing fields, and no result is produced; it is never a logged warning
\* after which processing goes on.
C9_SchemaFailureSignalled ==
    /\ pc \in {"validated", "done"} =>
          /\ missing_columns(ee_columns, required_ee_columns) = <<>>
          /\ missing_columns(principal_columns, required_principal_columns) = <<>>
    /\ pc = "error" =>
          /\ result = <<>>
          /\ \/ /\ st_error.file_name = "EE Nav File"
                /\ st_error.missing_columns # <<>>
                /\ st_error.missing_columns = missing_columns(ee_columns, required_ee_columns)
             \/ /\ st_error.file_name = "Principal File"
                /\ st_error.missing_columns # <<>>
                /\ st_error.missing_columns =
                      missing_columns(principal_columns, required_principal_columns)
    /\ pc \in {"ee_mapped", "mapped"} => complete(ee_columns) /\ log = <<>>
    /\ pc = "mapped" => complete(principal_columns)

\* C10: a premium cell holding text counts as an absent premium: the row is
\* MISSING_HR, MISSING_CARRIER or MISSING_BOTH, never MISMATCH or VALID.
C10_TextPremiumIsMissing ==
    pc = "done" =>
       \A n \in 1..Len(result) :
          LET hr == result[n].TOTAL_PREMIUM
              carrier == result[n].PRINCIPAL_PREMIUM
              absent(x) == x.kind # "num"
          IN  hr.kind = "str" \/ carrier.kind = "str" =>
                 result[n].ISSUE =
                    IF absent(hr) /\ absent(carrier) THEN "Missing Both Premiums"
                    ELSE IF absent(hr) THEN "Missing EE Nav Premium"
                    ELSE "Missing Principal Premium"

\* a row of an input table holds at least one of the two names
has_name(row) == notna(row.FIRST_NAME) \/ notna(row.LAST_NAME)

\* C11: the report has no row in which both first name and last name are
\* absent, and every input row that has at least one of the two names is in
\* the report.
C11_NamelessDropped ==
    pc = "done" =>
       /\ \A n \in 1..Len(result) :
             notna(result[n].FIRST_NAME) \/ notna(result[n].LAST_NAME)
       /\ \A i \in 1..Len(df_ee) : has_name(df_ee[i]) => RowsOfLeft(result, i) # {}
       /\ \A j \in 1..Len(df_principal) :
             has_name(df_principal[j]) => RowsOfRight(result, j) # {}

\* the positions at which the separator ", " occurs in a member name
occurrences(name) ==
    {k \in 1..(Len(name) - 1) : SubSeq(name, k, k + 1) = separator}

\* C12: a member name "LAST, FIRST" is split into last name LAST and first
\* name FIRST, a member name without ", " gives the whole value as the last
\* name and an empty first name, and the split never fails, also when no row
\* of the table holds a separator.
C12_MemberNameSplit ==
    /\ principal_df # <<>> => pc # "error"
    /\ pc = "saved" =>
          \A i \in 1..Len(principal_df) :
             LET name == principal_df[i].Member_Name.s
                 at == occurrences(name)
             IN  /\ Cardinality(at) = 1 =>
                       \E k \in at :
                          /\ principal_clean[i].Last_Name = Str(SubSeq(name, 1, k - 1))
                          /\ principal_clean[i].First_Name = Str(SubSeq(name, k + 2, Len(name)))
                 /\ at = {} =>
                       /\ principal_clean[i].Last_Name = Str(name)
                       /\ principal_clean[i].First_Name \in {None, NaN, Str(<<>>)}

=============================================================================
